---- MODULE Spec2Model ----
(***************************************************************************)
(* Symbol-insert task generator (src/src/generator.py, src/src/config.py,  *)
(* src/src/prompts.py): configuration validation, the random draw of a     *)
(* task instance, colour assignment, static rendering and the four-phase   *)
(* insertion animation.                                                    *)
(*                                                                         *)
(* An image is modelled by the ordered list of glyph draws made on it:     *)
(* each draw is the symbol, the anchor point (x, y) on which _draw_symbol  *)
(* centres the glyph box, the RGB colour and the opacity.                  *)
(* A float progress (i+1)/n is kept as the exact pair <<i+1, n>>; int() of *)
(* a float is truncation toward zero.  For the symbol sizes, canvas sizes  *)
(* and frame counts used here the exact truncation and CPython's double    *)
(* arithmetic give the same integers.                                      *)
(***************************************************************************)
EXTENDS Integers, Sequences, FiniteSets, TLC

(* ------------------------------ bounds -------------------------------- *)
MaxSeed == 3
MaxHashSeed == 1
MaxTasks == 2
MaxHold == 2
MaxFade == 2
MaxSlide == 2
MaxLen == 8

(* --------------------------- program constants ------------------------- *)
Shapes ==
  << "circle", "triangle", "square", "star", "diamond", "heart", "ring",
     "triangle_o", "square_o", "star_o", "diamond_o", "diamond_s",
     "triangle_down", "triangle_right", "triangle_left" >>

Letters ==
  << "A", "B", "C", "D", "E", "F", "G", "H", "I", "J", "K", "L", "M",
     "N", "O", "P", "Q", "R", "S", "T", "U", "V", "W", "X", "Y", "Z" >>

Numbers == << "0", "1", "2", "3", "4", "5", "6", "7", "8", "9" >>

Mixed ==
  << "circle", "triangle", "square", "star", "A", "B", "C", "1", "2", "3",
     "X", "Y", "Z" >>

SYMBOL_SETS ==
  [ shapes |-> Shapes, letters |-> Letters, numbers |-> Numbers, mixed |-> Mixed ]

SYMBOL_COLORS ==
  << <<220, 60, 60>>, <<60, 60, 220>>, <<60, 180, 60>>, <<220, 160, 60>>,
     <<160, 60, 220>>, <<60, 180, 180>>, <<220, 60, 160>>, <<100, 150, 60>>,
     <<220, 120, 60>>, <<80, 80, 200>> >>

PROMPT_TEMPLATES == << "insert", "add", "place", "insert_the" >>

DefaultHoldFrames == 5
DefaultFadeFrames == 8
DefaultSlideFrames == 10
Gap == 20

(* ------------------------------ helpers -------------------------------- *)
Range(s) == { s[i] : i \in 1..Len(s) }

Universe == Shapes \o Letters \o Numbers

SymbolIndex == [ s \in Range(Universe) |-> CHOOSE i \in 1..Len(Universe) : Universe[i] = s ]

(* int(): truncation toward zero of the exact quotient num/den, den > 0 *)
TruncDiv(num, den) == IF num >= 0 THEN num \div den ELSE -((-num) \div den)

(* ------------------------ the random module ---------------------------- *)
(* The generator's stream is a deterministic function of the seed.  It is  *)
(* represented by a small congruential generator; every draw advances it.  *)
RandStep(r) == (75 * r + 74) % 65537

seed_random(seed) == RandStep(RandStep(123 * seed + 1))

randbelow(r, n) == [ value |-> RandStep(r) % n, rng |-> RandStep(r) ]

(* random.randint(a, b), a <= b *)
randint(r, a, b) ==
  LET d == randbelow(r, b - a + 1) IN [ value |-> a + d.value, rng |-> d.rng ]

(* random.choice(seq), seq not empty *)
choice(r, seq) ==
  LET d == randbelow(r, Len(seq)) IN [ value |-> seq[d.value + 1], rng |-> d.rng ]

RECURSIVE sample_pool(_, _, _, _, _)
sample_pool(pool, n, k, r, result) ==
  IF k = 0 THEN [ value |-> result, rng |-> r ]
  ELSE LET d == randbelow(r, n)
           j == d.value + 1
       IN sample_pool([pool EXCEPT ![j] = pool[n]], n - 1, k - 1, d.rng,
                      Append(result, pool[j]))

(* random.sample(population, k), k <= len(population): without replacement *)
sample(r, population, k) == sample_pool(population, Len(population), k, r, << >>)

(* ----------------------- string hashing, set order --------------------- *)
(* str hashes are salted per process; a set is enumerated in hash order.   *)
StrHash(s, h) == (SymbolIndex[s] * (2 * h + 1) + 7 * h) % 53

RECURSIVE SetEnumeration(_, _)
SetEnumeration(S, h) ==
  IF S = {} THEN << >>
  ELSE LET first == CHOOSE s \in S : \A t \in S : StrHash(s, h) <= StrHash(t, h)
       IN << first >> \o SetEnumeration(S \ {first}, h)

(* ------------------------------ TaskConfig ----------------------------- *)
DefaultConfig ==
  [ symbol_set |-> "shapes", lengths |-> <<4, 8>>, symbol_size |-> 60,
    image_size |-> <<800, 200>>, generate_videos |-> TRUE,
    video_available |-> TRUE ]

SymbolSetOptions == { "shapes", "letters", "numbers", "mixed", "emoji" }
LengthOptions == { <<4, 8>>, <<3, 4>>, <<8, 4>>, <<8, 12>>, <<2, 4>>, <<4, 13>> }
SymbolSizeOptions == { 60, 40, 75, 0 }
ImageSizeOptions == { <<800, 200>>, <<641, 200>> }

Deviations(c) ==
  Cardinality({ f \in DOMAIN DefaultConfig : c[f] # DefaultConfig[f] })

(* the inputs: the default configuration with at most two fields changed *)
Configs ==
  { c \in [ symbol_set : SymbolSetOptions, lengths : LengthOptions,
            symbol_size : SymbolSizeOptions, image_size : ImageSizeOptions,
            generate_videos : BOOLEAN, video_available : BOOLEAN ] :
      Deviations(c) <= 2 }

min_sequence_length(c) == c.lengths[1]
max_sequence_length(c) == c.lengths[2]

(* the Field(ge=, le=) constraints of TaskConfig *)
FieldsValid(c) ==
  /\ min_sequence_length(c) >= 3 /\ min_sequence_length(c) <= 8
  /\ max_sequence_length(c) >= 4 /\ max_sequence_length(c) <= 12
  /\ c.symbol_size >= 40 /\ c.symbol_size <= 100

(* SymbolInsertGenerator.__init__: SYMBOL_SETS.get(name, SYMBOL_SETS["shapes"]) *)
select_symbols(c) ==
  IF c.symbol_set \in DOMAIN SYMBOL_SETS THEN SYMBOL_SETS[c.symbol_set]
  ELSE SYMBOL_SETS["shapes"]

(* ------------------------------ rendering ------------------------------ *)
(* _draw_symbol: the glyph box is centred on (x, y) and drawn opaque *)
draw_symbol(symbol, x, y, size, color) ==
  [ symbol |-> symbol, x |-> x, y |-> y, size |-> size, color |-> color,
    alpha |-> 255 ]

(* start_x = (width - (n * spacing - 20)) // 2 *)
start_x(width, n, spacing) == (width - (n * spacing - Gap)) \div 2

(* _render_sequence: the draws of one static image, in drawing order *)
render_sequence(sequence, color_map, c) ==
  IF sequence = << >> THEN << >>
  ELSE LET symbol_size == c.symbol_size
           spacing == symbol_size + Gap
           sx == start_x(c.image_size[1], Len(sequence), spacing)
           center_y == c.image_size[2] \div 2
       IN [ i \in 1..Len(sequence) |->
              draw_symbol(sequence[i], sx + (i - 1) * spacing, center_y,
                          symbol_size, color_map[sequence[i]]) ]

(* _create_color_map: palette entries in the enumeration order of the set *)
create_color_map(all_symbols, h) ==
  LET order == SetEnumeration(Range(all_symbols), h)
  IN [ s \in Range(all_symbols) |->
         LET i == CHOOSE k \in 1..Len(order) : order[k] = s
         IN SYMBOL_COLORS[((i - 1) % Len(SYMBOL_COLORS)) + 1] ]

(* faulty variant: progress taken as i / fade_frames *)
fade_alpha_zero_based(num, den) == (255 * (num - 1)) \div den

(* alpha = int(255 * alpha_progress), alpha_progress = num / den *)
fade_alpha(num, den) == (255 * num) \div den

(* x of the new symbol in the fade-in phase *)
fade_new_symbol_x(width, n, insert_pos, spacing) ==
  start_x(width, n, spacing) + insert_pos * spacing

(* faulty variant: the overlay glyph coloured from a map rebuilt for it alone *)
render_fade_in_frame_recolored(sequence, new_symbol, insert_pos, color_map, num, den, c) ==
  render_sequence(sequence, color_map, c) \o
  << [ symbol |-> new_symbol,
       x |-> fade_new_symbol_x(c.image_size[1], Len(sequence), insert_pos,
                               c.symbol_size + Gap),
       y |-> (c.image_size[2] \div 2) - c.symbol_size,
       size |-> c.symbol_size,
       color |-> create_color_map(<< new_symbol >>, 0)[new_symbol],
       alpha |-> fade_alpha(num, den) ] >>

(* _render_fade_in_frame: the base sequence, then the overlay glyph *)
render_fade_in_frame(sequence, new_symbol, insert_pos, color_map, num, den, c) ==
  LET symbol_size == c.symbol_size
      spacing == symbol_size + Gap
      center_y == c.image_size[2] \div 2
      new_symbol_x == fade_new_symbol_x(c.image_size[1], Len(sequence), insert_pos, spacing)
      new_symbol_y == center_y - symbol_size
  IN render_sequence(sequence, color_map, c) \o
     << [ symbol |-> new_symbol, x |-> new_symbol_x, y |-> new_symbol_y,
          size |-> symbol_size, color |-> color_map[new_symbol],
          alpha |-> fade_alpha(num, den) ] >>

(* int(initial + (final - initial) * progress), progress = num / den *)
interpolate(initial, final, num, den) ==
  TruncDiv(initial * den + (final - initial) * num, den)

(* faulty variant: the symbols after the insertion point are not shifted *)
slide_final_x_unshifted(final_start_x, i, insert_pos, spacing) ==
  final_start_x + i * spacing

(* final_x of the original symbol at 0-based index i *)
slide_final_x(final_start_x, i, insert_pos, spacing) ==
  IF i < insert_pos THEN final_start_x + i * spacing
  ELSE final_start_x + (i + 1) * spacing

(* _render_slide_and_shift_frame *)
render_slide_and_shift_frame(sequence, new_symbol, insert_pos, color_map, num, den, c) ==
  LET symbol_size == c.symbol_size
      spacing == symbol_size + Gap
      center_y == c.image_size[2] \div 2
      initial_start_x == start_x(c.image_size[1], Len(sequence), spacing)
      final_start_x == start_x(c.image_size[1], Len(sequence) + 1, spacing)
      new_x == final_start_x + insert_pos * spacing
      start_y == center_y - symbol_size
  IN [ k \in 1..Len(sequence) |->
         draw_symbol(sequence[k],
                     interpolate(initial_start_x + (k - 1) * spacing,
                                 slide_final_x(final_start_x, k - 1, insert_pos, spacing),
                                 num, den),
                     center_y, symbol_size, color_map[sequence[k]]) ] \o
     << draw_symbol(new_symbol, new_x, interpolate(start_y, center_y, num, den),
                    symbol_size, color_map[new_symbol]) >>

(* faulty variant: one hold frame fewer *)
hold_one_short(phase, obj, draws, hold_frames) ==
  [ i \in 1..(hold_frames - 1) |-> [ obj |-> obj, phase |-> phase, draws |-> draws ] ]

(* [image] * hold_frames: the same image object at hold_frames positions *)
hold(phase, obj, draws, hold_frames) ==
  [ i \in 1..hold_frames |-> [ obj |-> obj, phase |-> phase, draws |-> draws ] ]

(* _create_animation_frames; obj is the identity of the image object *)
create_animation_frames(initial_seq, final_seq, insert_symbol, insert_pos, color_map, hold_frames, fade_frames, slide_frames, c) ==
  hold("hold_initial", 1, render_sequence(initial_seq, color_map, c), hold_frames) \o
  [ i \in 1..fade_frames |->
      [ obj |-> 1 + i, phase |-> "fade_in",
        draws |-> render_fade_in_frame(initial_seq, insert_symbol, insert_pos,
                                       color_map, i, fade_frames, c) ] ] \o
  [ i \in 1..slide_frames |->
      [ obj |-> 1 + fade_frames + i, phase |-> "slide_and_shift",
        draws |-> render_slide_and_shift_frame(initial_seq, insert_symbol, insert_pos,
                                               color_map, i, slide_frames, c) ] ] \o
  hold("hold_final", 2 + fade_frames + slide_frames,
       render_sequence(final_seq, color_map, c), hold_frames)

(* faulty variant: the symbol appended instead of spliced in *)
splice_appended(sequence, insert_symbol, insert_position) ==
  Append(sequence, insert_symbol)

(* final_sequence = sequence[:p] + [insert_symbol] + sequence[p:] *)
splice(sequence, insert_symbol, insert_position) ==
  SubSeq(sequence, 1, insert_position) \o << insert_symbol >> \o
  SubSeq(sequence, insert_position + 1, Len(sequence))

(* faulty variant: the inserted symbol drawn from the whole alphabet *)
available_symbols_all(syms, sequence) == syms

(* available_symbols, with the fallback to the whole alphabet *)
available_symbols(syms, sequence) ==
  LET unused == SelectSeq(syms, LAMBDA s : s \notin Range(sequence))
  IN IF unused = << >> THEN syms ELSE unused

(* get_prompt: a template drawn at random, the symbol, the 1-indexed position *)
get_prompt(r, insert_symbol, position) ==
  LET t == choice(r, PROMPT_TEMPLATES)
  IN [ value |-> [ template |-> t.value, symbol |-> insert_symbol,
                   position |-> position ],
       rng |-> t.rng ]

(* ------------------------------- state --------------------------------- *)
VARIABLES
  config,      \* the field values handed to TaskConfig, and the seed
  pc,          \* "new", "rejected", "validated", "ready", "raised"
  symbols,     \* SymbolInsertGenerator.symbols
  video_generator, \* TRUE when a VideoGenerator was created
  rng,         \* state of the random module
  hashseed,    \* the process's string-hash salt
  run,         \* 1: first process, 2: the same config and seed run again
  ntasks,      \* generate_task_pair calls completed in this process
  task,        \* the last task instance and its TaskPair
  anim,        \* the last call of _create_animation_frames
  tuples,      \* (before, after, position, symbol, colors) of this process's tasks
  first_run    \* the tuples of the first process

vars == << config, pc, symbols, video_generator, rng, hashseed, run, ntasks,
           task, anim, tuples, first_run >>

NoTask ==
  [ status |-> "none", sequence |-> << >>, final_sequence |-> << >>,
    insert_symbol |-> "", insert_position |-> 0, color_map |-> << >>,
    first_image |-> << >>, final_image |-> << >>,
    prompt |-> [ template |-> "", symbol |-> "", position |-> 0 ],
    ground_truth_video |-> FALSE ]

NoAnim ==
  [ called |-> FALSE, hold_frames |-> 0, fade_frames |-> 0, slide_frames |-> 0,
    frames |-> << >> ]

Init ==
  /\ \E c \in Configs, seed \in 0..MaxSeed :
       config = [ fields |-> c, random_seed |-> seed ]
  /\ hashseed \in 0..MaxHashSeed
  /\ pc = "new"
  /\ symbols = << >>
  /\ video_generator = FALSE
  /\ rng = 0
  /\ run = 1
  /\ ntasks = 0
  /\ task = NoTask
  /\ anim = NoAnim
  /\ tuples = << >>
  /\ first_run = << >>

(* TaskConfig(...): the field constraints are all that is validated *)
ValidateConfig ==
  /\ pc = "new"
  /\ pc' = IF FieldsValid(config.fields) THEN "validated" ELSE "rejected"
  /\ UNCHANGED << config, symbols, video_generator, rng, hashseed, run, ntasks,
                  task, anim, tuples, first_run >>

(* SymbolInsertGenerator.__init__, the random module seeded from the config *)
NewGenerator ==
  /\ pc = "validated"
  /\ pc' = "ready"
  /\ symbols' = select_symbols(config.fields)
  /\ video_generator' = (config.fields.generate_videos /\ config.fields.video_available)
  /\ rng' = seed_random(config.random_seed)
  /\ UNCHANGED << config, hashseed, run, ntasks, task, anim, tuples, first_run >>

(* _generate_video: the frames handed to the encoder, with the default counts *)
generate_video(initial_seq, final_seq, insert_symbol, insert_pos, color_map, c) ==
  [ called |-> TRUE, hold_frames |-> DefaultHoldFrames,
    fade_frames |-> DefaultFadeFrames, slide_frames |-> DefaultSlideFrames,
    frames |-> create_animation_frames(initial_seq, final_seq, insert_symbol,
                                       insert_pos, color_map, DefaultHoldFrames,
                                       DefaultFadeFrames, DefaultSlideFrames, c) ]

(* generate_task_pair, from the length draw to the returned TaskPair; a     *)
(* ValueError of random.randint or random.sample leaves the call.          *)
generate_task_pair ==
  /\ pc = "ready"
  /\ ntasks < MaxTasks
  /\ LET c == config.fields
         lo == min_sequence_length(c)
         hi == max_sequence_length(c)
     IN IF lo > hi
        THEN /\ pc' = "raised"
             /\ task' = [ NoTask EXCEPT !.status = "ValueError" ]
             /\ UNCHANGED << rng, anim, ntasks, tuples >>
        ELSE LET len == randint(rng, lo, hi)
             IN IF len.value > Len(symbols)
                THEN /\ pc' = "raised"
                     /\ task' = [ NoTask EXCEPT !.status = "ValueError" ]
                     /\ rng' = len.rng
                     /\ UNCHANGED << anim, ntasks, tuples >>
                ELSE LET seq == sample(len.rng, symbols, len.value)
                         ins == choice(seq.rng, available_symbols(symbols, seq.value))
                         pos == randint(ins.rng, 0, Len(seq.value))
                         final == splice(seq.value, ins.value, pos.value)
                         color_map == create_color_map(final, hashseed)
                         prompt == get_prompt(pos.rng, ins.value, pos.value + 1)
                         video == config.fields.generate_videos /\ video_generator
                     IN /\ \E encoded \in BOOLEAN :
                             task' = [ status |-> "ok", sequence |-> seq.value,
                                       final_sequence |-> final,
                                       insert_symbol |-> ins.value,
                                       insert_position |-> pos.value,
                                       color_map |-> color_map,
                                       first_image |-> render_sequence(seq.value, color_map, c),
                                       final_image |-> render_sequence(final, color_map, c),
                                       prompt |-> prompt.value,
                                       ground_truth_video |-> (video /\ encoded) ]
                        /\ anim' = IF video
                                   THEN generate_video(seq.value, final, ins.value,
                                                       pos.value, color_map, c)
                                   ELSE NoAnim
                        /\ rng' = prompt.rng
                        /\ ntasks' = ntasks + 1
                        /\ tuples' = Append(tuples,
                                            << seq.value, final, pos.value, ins.value,
                                               color_map >>)
                        /\ pc' = "ready"
  /\ UNCHANGED << config, symbols, video_generator, hashseed, run, first_run >>

(* a second process with the same config and the same seed, started when  *)
(* the first has generated its num_samples tasks                          *)
Rerun ==
  /\ pc = "ready"
  /\ run = 1
  /\ ntasks = MaxTasks
  /\ run' = 2
  /\ first_run' = tuples
  /\ tuples' = << >>
  /\ ntasks' = 0
  /\ task' = NoTask
  /\ anim' = NoAnim
  /\ rng' = seed_random(config.random_seed)
  /\ hashseed' \in 0..MaxHashSeed
  /\ UNCHANGED << config, pc, symbols, video_generator >>

Next ==
  \/ ValidateConfig
  \/ NewGenerator
  \/ generate_task_pair
  \/ Rerun

Spec == Init /\ [][Next]_vars

(* ---------------- the animation synthesizer on given inputs ------------- *)
FrameCounts ==
  ((0..MaxHold) \X (0..MaxFade) \X (0..MaxSlide)) \cup
  { << DefaultHoldFrames, DefaultFadeFrames, DefaultSlideFrames >> }

(* a task instance handed to _create_animation_frames: n symbols of the     *)
(* alphabet, the next one inserted at p                                     *)
given_task(syms, n, p, h, c) ==
  LET seq == SubSeq(syms, 1, n)
      final == splice(seq, syms[n + 1], p)
      color_map == create_color_map(final, h)
  IN [ status |-> "ok", sequence |-> seq, final_sequence |-> final,
       insert_symbol |-> syms[n + 1], insert_position |-> p,
       color_map |-> color_map,
       first_image |-> render_sequence(seq, color_map, c),
       final_image |-> render_sequence(final, color_map, c),
       prompt |-> [ template |-> "", symbol |-> syms[n + 1], position |-> p + 1 ],
       ground_truth_video |-> FALSE ]

FrameSymbolSizes == { 40, 60, 75, 100 }

InitFrames ==
  /\ \E size \in FrameSymbolSizes, img \in ImageSizeOptions :
       config = [ fields |-> [ DefaultConfig EXCEPT !.symbol_size = size,
                                                    !.image_size = img ],
                  random_seed |-> 0 ]
  /\ pc = "ready"
  /\ symbols = select_symbols(config.fields)
  /\ video_generator = FALSE
  /\ rng = 0
  /\ hashseed = 0
  /\ run = 1
  /\ ntasks = 0
  /\ \E n \in 0..MaxLen, p \in 0..MaxLen :
       /\ p <= n
       /\ task = given_task(symbols, n, p, hashseed, config.fields)
  /\ \E k \in FrameCounts :
       anim = [ called |-> FALSE, hold_frames |-> k[1], fade_frames |-> k[2],
                slide_frames |-> k[3], frames |-> << >> ]
  /\ tuples = << >>
  /\ first_run = << >>

(* _create_animation_frames(initial_seq, final_seq, ..., k, f, s) *)
CallCreateAnimationFrames ==
  /\ ~anim.called
  /\ task.status = "ok"
  /\ anim' = [ anim EXCEPT
                 !.called = TRUE,
                 !.frames = create_animation_frames(task.sequence, task.final_sequence,
                                                    task.insert_symbol,
                                                    task.insert_position,
                                                    task.color_map, anim.hold_frames,
                                                    anim.fade_frames, anim.slide_frames,
                                                    config.fields) ]
  /\ UNCHANGED << config, pc, symbols, video_generator, rng, hashseed, run, ntasks,
                  task, tuples, first_run >>

SpecFrames == InitFrames /\ [][CallCreateAnimationFrames]_vars

(* =============================== claims ================================ *)
NoDuplicates(s) == \A i, j \in 1..Len(s) : s[i] = s[j] => i = j

Width == config.fields.image_size[1]
CenterY == config.fields.image_size[2] \div 2
Spacing == config.fields.symbol_size + Gap

(* the frames of one phase, in order *)
PhaseFrames(phase) == SelectSeq(anim.frames, LAMBDA fr : fr.phase = phase)

(* the glyph of the inserted symbol: drawn last in a fade-in or slide frame *)
NewGlyph(fr) == fr.draws[Len(fr.draws)]

SamePlacement(d, e) ==
  /\ d.symbol = e.symbol /\ d.x = e.x /\ d.y = e.y /\ d.color = e.color

(* round(n / d), ties to the even integer *)
RoundDiv(n, d) ==
  LET q == n \div d
      r == n % d
  IN IF 2 * r < d THEN q
     ELSE IF 2 * r > d THEN q + 1
     ELSE IF q % 2 = 0 THEN q ELSE q + 1

(* C1: every generated task instance has after = before[:p] + [s] +        *)
(* before[p:], 0 <= p <= len(before), len(after) = len(before) + 1 and     *)
(* min_sequence_length <= len(before) <= max_sequence_length.              *)
C1_SpliceInvariant ==
  task.status = "ok" =>
    LET before == task.sequence
        after == task.final_sequence
        p == task.insert_position
    IN /\ p \in 0..Len(before)
       /\ Len(after) = Len(before) + 1
       /\ \A i \in 1..Len(before) :
            IF i <= p THEN after[i] = before[i] ELSE after[i + 1] = before[i]
       /\ after[p + 1] = task.insert_symbol
       /\ min_sequence_length(config.fields) <= Len(before)
       /\ Len(before) <= max_sequence_length(config.fields)

C1_Witness ==
  /\ task.status = "ok"
  /\ ntasks = 2
  /\ task.insert_position > 0
  /\ task.insert_position < Len(task.sequence)

(* C2: the last slide-and-shift frame (progress 1) places every symbol at  *)
(* the (symbol, x, y, color) of the static render of the after-sequence:   *)
(* index i < p at slot i, index i >= p at slot i + 1, the inserted symbol  *)
(* at slot p on the vertical centre; p = 0 and p = len(before) included.   *)
C2_FrameContinuity ==
  (anim.called /\ anim.slide_frames >= 1) =>
    LET slides == PhaseFrames("slide_and_shift")
        last == slides[Len(slides)].draws
        n == Len(task.sequence)
        p == task.insert_position
    IN /\ Len(slides) = anim.slide_frames
       /\ Len(last) = Len(task.final_image)
       /\ \A i \in 0..(n - 1) :
            SamePlacement(last[i + 1],
                          task.final_image[IF i < p THEN i + 1 ELSE i + 2])
       /\ SamePlacement(last[n + 1], task.final_image[p + 1])
       /\ last[n + 1].y = CenterY
       /\ { << d.symbol, d.x, d.y, d.color >> : d \in Range(last) } =
          { << d.symbol, d.x, d.y, d.color >> : d \in Range(task.final_image) }

C2_Witness ==
  /\ anim.called
  /\ anim.slide_frames = 2
  /\ Len(task.sequence) = 3
  /\ task.insert_position = 0

(* the frames come phase after phase: k hold, f fade-in, s slide, k hold *)
PhasesInOrder ==
  LET k == anim.hold_frames
      f == anim.fade_frames
      s == anim.slide_frames
      n == Len(task.sequence)
  IN \A j \in 1..Len(anim.frames) :
       LET fr == anim.frames[j]
       IN IF j <= k
            THEN fr.phase = "hold_initial" /\ fr.draws = task.first_image
          ELSE IF j <= k + f
            THEN /\ fr.phase = "fade_in"
                 /\ Len(fr.draws) = n + 1
                 /\ NewGlyph(fr).y = CenterY - config.fields.symbol_size
          ELSE IF j <= k + f + s
            THEN /\ fr.phase = "slide_and_shift"
                 /\ Len(fr.draws) = n + 1
                 /\ NewGlyph(fr).alpha = 255
          ELSE fr.phase = "hold_final" /\ fr.draws = task.final_image

IsDefaultCounts ==
  /\ anim.hold_frames = DefaultHoldFrames
  /\ anim.fade_frames = DefaultFadeFrames
  /\ anim.slide_frames = DefaultSlideFrames

(* C3 (as claimed): _create_animation_frames returns 2k + f + s frames,    *)
(* 31 with the defaults: k frames of the before-sequence, f fade-in        *)
(* frames, s slide-and-shift frames, k frames of the after-sequence.       *)
C3_AnimationOrderAsClaimed ==
  anim.called =>
    /\ Len(anim.frames) = 2 * anim.hold_frames + anim.fade_frames + anim.slide_frames
    /\ IsDefaultCounts => Len(anim.frames) = 31
    /\ PhasesInOrder

(* C3 (amended): _create_animation_frames returns 2k + f + s frames, 28    *)
(* with the defaults k = 5, f = 8, s = 10, in the order k frames of the    *)
(* before-sequence, f fade-in frames, s slide-and-shift frames, k frames   *)
(* of the after-sequence.                                                  *)
C3_AnimationOrder ==
  anim.called =>
    /\ Len(anim.frames) = 2 * anim.hold_frames + anim.fade_frames + anim.slide_frames
    /\ IsDefaultCounts => Len(anim.frames) = 28
    /\ PhasesInOrder

C3_Witness ==
  /\ anim.called
  /\ anim.hold_frames = 2 /\ anim.fade_frames = 2 /\ anim.slide_frames = 2
  /\ Len(task.sequence) = 3

(* C4: two runs with the same random seed and the same config produce the  *)
(* same (before, after, insert-position, inserted-symbol, color map).      *)
C4_SeedDeterminism ==
  run = 2 =>
    \A j \in 1..Len(tuples) : j <= Len(first_run) => tuples[j] = first_run[j]

(* C5: the color map is built once from the after-sequence, has an entry   *)
(* for every symbol of the before- and after-sequences, each entry is      *)
(* palette[index mod palette size], and every image and frame of the       *)
(* instance draws a symbol in that one color.                              *)
C5_ColorStability ==
  task.status = "ok" =>
    LET cm == task.color_map
        order == SetEnumeration(Range(task.final_sequence), hashseed)
        images == { task.first_image, task.final_image } \cup
                  { fr.draws : fr \in Range(anim.frames) }
    IN /\ DOMAIN cm = Range(task.final_sequence)
       /\ Range(task.sequence) \subseteq DOMAIN cm
       /\ \A i \in 1..Len(order) :
            cm[order[i]] = SYMBOL_COLORS[((i - 1) % Len(SYMBOL_COLORS)) + 1]
       /\ \A img \in images : \A d \in Range(img) :
            d.symbol \in DOMAIN cm /\ d.color = cm[d.symbol]

C5_Witness ==
  /\ task.status = "ok"
  /\ anim.called
  /\ Len(anim.frames) = 28
  /\ Len(task.sequence) >= 8

(* C6: when the alphabet has more symbols than the before-sequence, the    *)
(* before-sequence has no duplicate, the inserted symbol is not in it, and *)
(* the after-sequence has no duplicate.                                    *)
C6_Distinctness ==
  (task.status = "ok" /\ Len(symbols) > Len(task.sequence)) =>
    /\ NoDuplicates(task.sequence)
    /\ task.insert_symbol \notin Range(task.sequence)
    /\ NoDuplicates(task.final_sequence)

C6_Witness ==
  /\ task.status = "ok"
  /\ run = 1
  /\ Len(symbols) = Len(task.sequence) + 1

(* C7: min_sequence_length > max_sequence_length is rejected when the      *)
(* TaskConfig is built, and generate_task_pair never raises for a config   *)
(* that TaskConfig accepted.                                               *)
C7_OnlyConfigErrors ==
  /\ (min_sequence_length(config.fields) > max_sequence_length(config.fields))
       => pc \in { "new", "rejected" }
  /\ pc # "raised"

(* C8: the row of glyphs is horizontally centred: the midpoint between the *)
(* first and the last slot centre is W/2 up to 1 unit of rounding.         *)
C8_RowCentered ==
  task.status = "ok" =>
    \A img \in { task.first_image, task.final_image } :
      Len(img) >= 1 =>
        LET twice == img[1].x + img[Len(img)].x
        IN twice - Width <= 2 /\ Width - twice <= 2

(* C9: the inserted symbol has the same x in every fade-in frame, in every *)
(* slide-and-shift frame and in the static after image.                    *)
C9_NoHorizontalMotion ==
  anim.called =>
    LET landing == task.final_image[task.insert_position + 1].x
    IN \A fr \in Range(anim.frames) :
         fr.phase \in { "fade_in", "slide_and_shift" } => NewGlyph(fr).x = landing

(* C10 (as claimed): in fade-in frame i the opacity is                     *)
(* round(255 * (i+1) / f), non-decreasing, in 0..255, 255 in the last.     *)
C10_FadeAlphaRounded ==
  (anim.called /\ anim.fade_frames >= 1) =>
    LET fades == PhaseFrames("fade_in")
    IN \A i \in 1..Len(fades) :
         NewGlyph(fades[i]).alpha = RoundDiv(255 * i, anim.fade_frames)

(* C10 (amended): in fade-in frame i (0 <= i < f) the opacity is           *)
(* floor(255 * (i+1) / f): non-decreasing in i, in 0..255, and 255 in the  *)
(* last fade-in frame, for every f >= 1.                                   *)
C10_FadeAlphaTruncated ==
  (anim.called /\ anim.fade_frames >= 1) =>
    LET fades == PhaseFrames("fade_in")
        f == anim.fade_frames
    IN /\ Len(fades) = f
       /\ \A i \in 1..f :
            /\ NewGlyph(fades[i]).alpha = (255 * i) \div f
            /\ NewGlyph(fades[i]).alpha \in 0..255
            /\ i < f => NewGlyph(fades[i]).alpha <= NewGlyph(fades[i + 1]).alpha
       /\ NewGlyph(fades[f]).alpha = 255

C10_Witness ==
  /\ anim.called
  /\ anim.fade_frames = DefaultFadeFrames
  /\ NewGlyph(PhaseFrames("fade_in")[1]).alpha = 31

(* C11: no two positions of the frame list returned by                     *)
(* _create_animation_frames refer to the same frame object, the hold       *)
(* phases included: every frame is a canvas of its own.                    *)
C11_NoFrameAliasing ==
  anim.called =>
    \A i, j \in 1..Len(anim.frames) :
      anim.frames[i].obj = anim.frames[j].obj => i = j

====
